---------------------------- MODULE Spec2Model ----------------------------
(***************************************************************************)
(* Model of the PMM agent HTTP service (apps/agent/src/pmm_agent):         *)
(* the in-memory session store and truncation (server.py), the streaming   *)
(* chat turn (server.py chat_stream / generate) driven by the events of    *)
(* the ReAct agent (agent.py), POST /chat, DELETE /sessions and the        *)
(* metrics reads (server.py), the observability log (observability.py      *)
(* AgentLogger) and the readiness tool (tools/scoring.py).                 *)
(*                                                                         *)
(* Text is a sequence of one-character strings.  A Python dict of tool     *)
(* arguments is a sequence of <<key, value>> pairs with distinct keys, in  *)
(* insertion order.  Timestamps and response times are left out: no        *)
(* modelled decision reads them.                                           *)
(***************************************************************************)
EXTENDS Integers, Sequences, FiniteSets, TLC

(***************************************************************************)
(* Bounds of the model.                                                    *)
(***************************************************************************)
\* largest MAX_MESSAGE_HISTORY the environment sets (0..MaxHistory)
MaxHistory == 1
\* chat requests accepted in one behaviour of Spec
MaxTurns == 2
\* model responses ("agent" events) of one streaming turn in Spec
MaxRounds == 1
\* model responses of one streaming turn in TurnSpec
TurnRounds == 3
\* length of the stored histories TruncSpec starts from
MaxLen == 4
\* model responses of one streaming turn in CapSpec
CapRounds == 11
\* chat requests accepted in one behaviour of ApiSpec
ApiTurns == 2
\* model responses of one streaming turn in ApiSpec
ApiRounds == 2
\* lines of a response text, and tool calls of a turn, in AuditSpec
MaxAuditLines == 2
MaxAuditTools == 2

(***************************************************************************)
(* Program constants.                                                      *)
(***************************************************************************)
\* observability.py: len(line.strip()) > 10
MinQuestionLen == 10
\* server.py ChatRequest.message: Field(..., min_length=1, max_length=50000)
MinMessageLength == 1
MaxMessageLength == 50000

Reqs == {"r1", "r2"}
SessionIds == {"s1", "s2"}
None == "None"

(***************************************************************************)
(* Generic sequence helpers.                                               *)
(***************************************************************************)
Min(a, b) == IF a < b THEN a ELSE b
Max(a, b) == IF a > b THEN a ELSE b

\* Python seq[start:] for any integer start (negative counts from the end)
PySliceFrom(seq, start) ==
    LET n == Len(seq)
        s == IF start < 0 THEN Max(n + start, 0) ELSE Min(start, n)
    IN  SubSeq(seq, s + 1, n)

(***************************************************************************)
(* Messages of a session history.                                          *)
(***************************************************************************)
MAIN_SYSTEM_PROMPT == <<"P">>
Msg(role, content) == [role |-> role, content |-> content]
SystemMessage == Msg("system", MAIN_SYSTEM_PROMPT)
NewSession == <<SystemMessage>>

(***************************************************************************)
(* server.py truncate_session_messages; N is MAX_MESSAGE_HISTORY.          *)
(* session_messages[-N:] is Python's slice: with N = 0 it is the whole     *)
(* list.                                                                   *)
(***************************************************************************)
truncate_session_messages(session_messages, N) ==
    IF Len(session_messages) <= N + 1
    THEN session_messages
    ELSE LET has_system == /\ session_messages # <<>>
                           /\ session_messages[1].role = "system"
             recent_messages == PySliceFrom(session_messages, -N)
         IN  IF has_system
             THEN <<session_messages[1]>> \o recent_messages
             ELSE recent_messages


(***************************************************************************)
(* Tool-call requests and the events of the stream.                        *)
(***************************************************************************)
Range(f) == {f[i] : i \in DOMAIN f}

\* the characters of argument keys, in the order json.dumps(sort_keys=True)
\* puts them
KeyOrder == <<"x", "y">>
KeyRank(k) == CHOOSE i \in DOMAIN KeyOrder : KeyOrder[i] = k

\* json.dumps(tool_args, sort_keys=True): the pairs in ascending key order
json_dumps_sort_keys(tool_args) ==
    [i \in 1..Len(tool_args) |->
        CHOOSE p \in Range(tool_args) :
            Cardinality({q \in Range(tool_args) :
                            KeyRank(q[1]) < KeyRank(p[1])}) = i - 1]

\* the key with the arguments written in insertion order (str(tool_args))
KeyUnsorted(tool_name, tool_args) == <<tool_name, tool_args>>

\* server.py chat_stream.generate.get_tool_call_key: f"{tool_name}:{args_str}"
get_tool_call_key(tool_name, tool_args) ==
    <<tool_name, json_dumps_sort_keys(tool_args)>>

\* two argument dicts are equal in Python when they hold the same pairs
SameArgs(a, b) == Range(a) = Range(b)

\* observability.py AgentLogger.log_tool_call: the ToolCallEvent it returns
\* (it stores nothing in the logger)
log_tool_call(tool_name, args, session_id, message_id) ==
    [tool_name |-> tool_name, args |-> args,
     session_id |-> session_id, message_id |-> message_id]

\* the server-sent events generate() yields
ToolCallSSE(name, args) == [type |-> "tool_call", name |-> name, args |-> args]
TextSSE(content) == [type |-> "text", content |-> content]
\* done with request.session_id, which is None when the client named no id
DoneSSE_RequestId(session_id) == [type |-> "done", session_id |-> None]
DoneSSE(session_id) == [type |-> "done", session_id |-> session_id]
ErrorText(e) == <<"E", "r", "r", "o", "r", ":", " ">> \o e
ErrorSSE(e) == TextSSE(ErrorText(e))

\* one yield per character of text
TextEvents(text) == [i \in 1..Len(text) |-> TextSSE(<<text[i]>>)]

(***************************************************************************)
(* The body of generate() for one "agent" event (server.py 294-381).       *)
(* st is the turn's local state: seen_tool_calls, tool_calls_tracked, the  *)
(* events yielded so far (out), full_response, session_id, message_id.     *)
(***************************************************************************)
\* one tool-call request (server.py 309-338 and 354-373)
HandleToolCall(tool_name, tool_args, st) ==
    IF tool_name = ""
    THEN st
    ELSE LET tool_call_key == get_tool_call_key(tool_name, tool_args)
         IN  IF tool_call_key \in st.seen_tool_calls
             THEN st
             ELSE [st EXCEPT
                     !.seen_tool_calls = @ \cup {tool_call_key},
                     !.tool_calls_tracked =
                         Append(@, log_tool_call(tool_name, tool_args,
                                                 st.session_id, st.message_id)),
                     !.out = Append(@, ToolCallSSE(tool_name, tool_args))]

RECURSIVE HandleToolCalls(_, _)
\* for tc in agent_message.tool_calls (server.py 299-338)
HandleToolCalls(tool_calls, st) ==
    IF tool_calls = <<>>
    THEN st
    ELSE HandleToolCalls(Tail(tool_calls),
                         HandleToolCall(Head(tool_calls).name,
                                        Head(tool_calls).args, st))

RECURSIVE HandleContentBlocks(_, _)
\* for item in agent_message.content (server.py 344-373): tool_use blocks
HandleContentBlocks(blocks, st) ==
    IF blocks = <<>>
    THEN st
    ELSE LET item == Head(blocks)
         IN  HandleContentBlocks(Tail(blocks),
                 IF item.type = "tool_use"
                 THEN HandleToolCall(item.name, item.input, st)
                 ELSE st)

RECURSIVE BlocksText(_)
\* text_content += item.get('text', '') over the text blocks
BlocksText(blocks) ==
    IF blocks = <<>>
    THEN <<>>
    ELSE (IF Head(blocks).type = "text" THEN Head(blocks).text ELSE <<>>)
         \o BlocksText(Tail(blocks))

\* text_content of an AIMessage (server.py 341-348)
TextContent(agent_message) ==
    IF agent_message.content.kind = "str"
    THEN agent_message.content.text
    ELSE BlocksText(agent_message.content.blocks)

\* new_text = text_content[len(full_response):] (server.py 378)
NewText(text_content, full_response) ==
    PySliceFrom(text_content, Len(full_response))

\* stream the text (server.py 376-381)
StreamText(text_content, st) ==
    IF text_content = <<>>
    THEN st
    ELSE LET new_text == NewText(text_content, st.full_response)
         IN  [st EXCEPT !.full_response = @ \o new_text,
                        !.out = @ \o TextEvents(new_text)]

\* an "agent" branch that streams the text before it reports the tool calls
HandleAgentMessage_TextFirst(agent_message, st) ==
    LET st1 == StreamText(TextContent(agent_message), st)
        st2 == HandleToolCalls(agent_message.tool_calls, st1)
    IN  IF agent_message.content.kind = "list"
        THEN HandleContentBlocks(agent_message.content.blocks, st2)
        ELSE st2

\* the whole "agent" branch for one AIMessage
HandleAgentMessage(agent_message, st) ==
    LET st1 == HandleToolCalls(agent_message.tool_calls, st)
        st2 == IF agent_message.content.kind = "list"
               THEN HandleContentBlocks(agent_message.content.blocks, st1)
               ELSE st1
    IN  StreamText(TextContent(agent_message), st2)


(***************************************************************************)
(* observability.py: the protocol analysis and the metrics log.            *)
(* An Optional value is <<>> (None) or <<v>>.                              *)
(***************************************************************************)
Null == <<>>
Some(v) == <<v>>

Contains(text, c) == \E i \in DOMAIN text : text[i] = c

RECURSIVE SplitLines(_)
\* text.split("\n")
SplitLines(text) ==
    IF ~Contains(text, "\n")
    THEN <<text>>
    ELSE LET i == CHOOSE k \in DOMAIN text :
                      /\ text[k] = "\n"
                      /\ \A j \in 1..(k - 1) : text[j] # "\n"
         IN  <<SubSeq(text, 1, i - 1)>>
             \o SplitLines(SubSeq(text, i + 1, Len(text)))

IsSpace(c) == c \in {" ", "\n", "\t"}

\* the line as it is: no strip()
Strip_Raw(line) == line

\* line.strip()
Strip(line) ==
    LET keep == {i \in DOMAIN line : ~IsSpace(line[i])}
    IN  IF keep = {}
        THEN <<>>
        ELSE SubSeq(line,
                    CHOOSE i \in keep : \A j \in keep : i <= j,
                    CHOOSE i \in keep : \A j \in keep : i >= j)

\* [x for x in seq if x in keep], order kept
RECURSIVE FilterSeq(_, _)
FilterSeq(seq, keep) ==
    IF seq = <<>>
    THEN <<>>
    ELSE (IF Head(seq) \in keep THEN <<Head(seq)>> ELSE <<>>)
         \o FilterSeq(Tail(seq), keep)

\* questions[0] if questions else None
FirstOrNull(questions) ==
    IF questions = <<>> THEN Null ELSE Some(Head(questions))

\* variants of the analysis: the lines of a turn with tool calls must be
\* longer than tools_min, and a first turn with no tool call and no '?' gets
\* the verdict no_question
AnalyzeWith(agent_response, tool_calls, first, tools_min, no_question) ==
    LET lines == SplitLines(agent_response)
        has_question == Contains(agent_response, "?")
    IN  IF ~first
        THEN <<Null, Null>>
        ELSE IF Len(tool_calls) > 0
        THEN <<Some(FALSE),
               FirstOrNull(FilterSeq(lines,
                   {l \in Range(lines) :
                       Contains(l, "?") /\ Len(Strip(l)) > tools_min}))>>
        ELSE IF has_question
        THEN <<Some(TRUE),
               FirstOrNull(FilterSeq(lines,
                   {l \in Range(lines) :
                       Contains(l, "?") /\ Len(Strip(l)) > MinQuestionLen}))>>
        ELSE <<no_question, Null>>

\* the analysis applied to every turn
analyze_EveryTurn(agent_response, tool_calls, is_first_message) ==
    AnalyzeWith(agent_response, tool_calls, TRUE, -1, Null)

\* the analysis with the minimum length also after tool calls
analyze_ToolsMinLength(agent_response, tool_calls, is_first_message) ==
    AnalyzeWith(agent_response, tool_calls, is_first_message, MinQuestionLen,
                Null)

\* the analysis that takes a first answer without '?' as compliant
analyze_NoQuestionCompliant(agent_response, tool_calls, is_first_message) ==
    AnalyzeWith(agent_response, tool_calls, is_first_message, -1, Some(TRUE))

\* AgentLogger._analyze_clarification_protocol:
\* <<followed_protocol, clarification_question>>
analyze_clarification_protocol(agent_response, tool_calls, is_first_message) ==
    LET lines == SplitLines(agent_response)
        has_question == Contains(agent_response, "?")
    IN  IF ~is_first_message
        THEN <<Null, Null>>
        ELSE IF Len(tool_calls) > 0
        THEN IF has_question
             THEN <<Some(FALSE),
                    FirstOrNull(FilterSeq(lines,
                        {l \in Range(lines) : Contains(l, "?")}))>>
             ELSE <<Some(FALSE), Null>>
        ELSE IF has_question
        THEN <<Some(TRUE),
               FirstOrNull(FilterSeq(lines,
                   {l \in Range(lines) :
                       Contains(l, "?") /\ Len(Strip(l)) > MinQuestionLen}))>>
        ELSE <<Null, Null>>

\* the AgentResponseEvent log_response builds
AgentResponseEvent(sid, mid, user_message, agent_response, tool_calls, first) ==
    LET verdict == analyze_clarification_protocol(agent_response, tool_calls,
                                                  first)
    IN  [session_id |-> sid,
         message_id |-> mid,
         user_message |-> user_message,
         agent_response |-> agent_response,
         tool_calls |-> tool_calls,
         followed_clarification_protocol |-> verdict[1],
         clarification_question |-> verdict[2]]

\* SessionMetrics(message_count=0, tool_call_count=0, tools_used=[], errors=[])
NewSessionMetrics(session_id) ==
    [session_id |-> session_id, message_count |-> 0, tool_call_count |-> 0,
     tools_used |-> <<>>, errors |-> <<>>]

\* tool_call_count += 1, whatever the number of tool calls
ToolCallIncrement_One(tool_calls) == 1
\* tool_call_count += len(tool_calls)
ToolCallIncrement(tool_calls) == Len(tool_calls)

\* the update of one SessionMetrics in log_response
UpdatedMetrics(m, tool_calls) ==
    [m EXCEPT !.message_count = @ + 1,
              !.tool_call_count = @ + ToolCallIncrement(tool_calls),
              !.tools_used = @ \o [i \in DOMAIN tool_calls |->
                                      tool_calls[i].tool_name]]


(***************************************************************************)
(* State.                                                                  *)
(*   MAX_MESSAGE_HISTORY  server.py module constant, read from the         *)
(*                        environment at import                            *)
(*   sessions             server.py sessions: session id -> session dict   *)
(*                        (a reference: an index of heap)                  *)
(*   heap                 the session dicts ever created; heap[o] is       *)
(*                        session["messages"] of dict o.  A request keeps  *)
(*                        its dict after delete_session dropped it         *)
(*   logger_events        AgentLogger.events                               *)
(*   logger_sessions      AgentLogger.sessions: session id -> metrics      *)
(*   turns                requests accepted so far (the next uuid4)        *)
(*   response             the last exchange of a request/response endpoint *)
(*                        (DELETE /sessions, GET /metrics, POST /chat, a   *)
(*                        rejected chat request) or of a direct call of a  *)
(*                        tool: the request and what the caller got back   *)
(* and, per request slot r (the locals of chat_stream / generate / chat):  *)
(*   pc, session_id, message, message_id, session (the dict reference),    *)
(*   is_first_message, full_response, seen_tool_calls, tool_calls_tracked, *)
(*   out (the events yielded), agent_message (the last AIMessage taken     *)
(*   from the agent), phase and rounds (where the ReAct agent's graph is). *)
(***************************************************************************)
VARIABLES MAX_MESSAGE_HISTORY, sessions, heap, logger_events, logger_sessions,
          turns, response, pc, session_id, message, message_id, session,
          is_first_message, full_response, seen_tool_calls,
          tool_calls_tracked, out, agent_message, phase, rounds

shared == <<MAX_MESSAGE_HISTORY, sessions, heap, logger_events,
            logger_sessions, turns, response>>
locals == <<pc, session_id, message, message_id, session, is_first_message,
            full_response, seen_tool_calls, tool_calls_tracked, out,
            agent_message, phase, rounds>>
vars == <<shared, locals>>

\* an AIMessage with no tool calls and no text: what agent_message holds
\* before the first "agent" event
NoMessage == [tool_calls |-> <<>>, content |-> [kind |-> "str", text |-> <<>>]]

\* the locals of a request at the top of generate() (server.py 221-242)
LocalsInit ==
    /\ pc = [r \in Reqs |-> "idle"]
    /\ session_id = [r \in Reqs |-> None]
    /\ message = [r \in Reqs |-> <<>>]
    /\ message_id = [r \in Reqs |-> 0]
    /\ session = [r \in Reqs |-> 0]
    /\ is_first_message = [r \in Reqs |-> FALSE]
    /\ full_response = [r \in Reqs |-> <<>>]
    /\ seen_tool_calls = [r \in Reqs |-> {}]
    /\ tool_calls_tracked = [r \in Reqs |-> <<>>]
    /\ out = [r \in Reqs |-> <<>>]
    /\ agent_message = [r \in Reqs |-> NoMessage]
    /\ phase = [r \in Reqs |-> "model"]
    /\ rounds = [r \in Reqs |-> 0]

\* no request/response endpoint was called yet
NoResponse == [request |-> <<>>]

\* the process after import: no session, an empty log
Init ==
    /\ MAX_MESSAGE_HISTORY \in 0..MaxHistory
    /\ sessions = <<>>
    /\ heap = <<>>
    /\ logger_events = <<>>
    /\ logger_sessions = <<>>
    /\ turns = 0
    /\ response = NoResponse
    /\ LocalsInit

\* what a client sends as request.message (ChatRequest: 1..50000 characters)
UserMessages == {<<"u">>, <<"v">>}

\* a request slot that serves no request
Free(r) == pc[r] \in {"idle", "done", "closed", "returned"}

\* uuid4(): an id no session and no metrics entry has
FreshIds ==
    {s \in SessionIds :
        /\ s \notin DOMAIN sessions
        /\ s \notin DOMAIN logger_sessions
        /\ \A r \in Reqs : Free(r) \/ session_id[r] # s}

\* sessions and heap after "if session_id not in sessions: sessions[...] = {...}"
WithSession(sid) ==
    IF sid \in DOMAIN sessions
    THEN [sessions |-> sessions, heap |-> heap]
    ELSE [sessions |-> [s \in DOMAIN sessions \cup {sid} |->
                           IF s = sid THEN Len(heap) + 1 ELSE sessions[s]],
          heap |-> Append(heap, NewSession)]

\* every request taken as the first of its session
NoUserMessage_Always(messages) == TRUE

\* len([m for m in session["messages"] if m["role"] == "user"]) == 0
NoUserMessage(messages) == \A i \in DOMAIN messages : messages[i].role # "user"

(***************************************************************************)
(* POST /chat/stream up to the first event of the agent (server.py         *)
(* 199-242): get or create the session, append the user message, truncate. *)
(* sid_in is request.session_id (None: a fresh uuid4).                     *)
(***************************************************************************)
ChatStreamStart(r, sid_in, msg) ==
    /\ Free(r)
    /\ \E sid \in (IF sid_in = None THEN FreshIds ELSE {sid_in}) :
         LET w == WithSession(sid)
             o == w.sessions[sid]
         IN  /\ sessions' = w.sessions
             /\ heap' = [w.heap EXCEPT ![o] =
                    truncate_session_messages(
                        Append(@, Msg("user", msg)), MAX_MESSAGE_HISTORY)]
             /\ session_id' = [session_id EXCEPT ![r] = sid]
             /\ session' = [session EXCEPT ![r] = o]
             /\ is_first_message' =
                    [is_first_message EXCEPT ![r] = NoUserMessage(w.heap[o])]
    /\ turns' = turns + 1
    /\ message' = [message EXCEPT ![r] = msg]
    /\ message_id' = [message_id EXCEPT ![r] = turns + 1]
    /\ pc' = [pc EXCEPT ![r] = "streaming"]
    /\ full_response' = [full_response EXCEPT ![r] = <<>>]
    /\ seen_tool_calls' = [seen_tool_calls EXCEPT ![r] = {}]
    /\ tool_calls_tracked' = [tool_calls_tracked EXCEPT ![r] = <<>>]
    /\ out' = [out EXCEPT ![r] = <<>>]
    /\ agent_message' = [agent_message EXCEPT ![r] = NoMessage]
    /\ phase' = [phase EXCEPT ![r] = "model"]
    /\ rounds' = [rounds EXCEPT ![r] = 0]
    /\ UNCHANGED <<MAX_MESSAGE_HISTORY, logger_events, logger_sessions,
                   response>>

\* the turn's local state as HandleAgentMessage takes it
TurnState(r) ==
    [seen_tool_calls |-> seen_tool_calls[r],
     tool_calls_tracked |-> tool_calls_tracked[r],
     out |-> out[r],
     full_response |-> full_response[r],
     session_id |-> session_id[r],
     message_id |-> message_id[r]]

\* create_react_agent's graph after an AIMessage: the tools node runs when the
\* message has tool calls, else the graph ends
NextPhase(m) == IF m.tool_calls # <<>> THEN "tools" ELSE "end"

(***************************************************************************)
(* One {"agent": ...} event of agent.astream, handled by generate()        *)
(* (server.py 260-381).                                                    *)
(***************************************************************************)
AgentNode(r, m) ==
    /\ pc[r] = "streaming"
    /\ phase[r] = "model"
    /\ LET st == HandleAgentMessage(m, TurnState(r))
       IN  /\ seen_tool_calls' = [seen_tool_calls EXCEPT ![r] = st.seen_tool_calls]
           /\ tool_calls_tracked' =
                  [tool_calls_tracked EXCEPT ![r] = st.tool_calls_tracked]
           /\ out' = [out EXCEPT ![r] = st.out]
           /\ full_response' = [full_response EXCEPT ![r] = st.full_response]
    /\ agent_message' = [agent_message EXCEPT ![r] = m]
    /\ phase' = [phase EXCEPT ![r] = NextPhase(m)]
    /\ rounds' = [rounds EXCEPT ![r] = @ + 1]
    /\ UNCHANGED <<shared, pc, session_id, message, message_id, session,
                   is_first_message>>

\* a tools branch that streams the tool results to the client as text
ToolsNode_Streams(r) ==
    /\ pc[r] = "streaming"
    /\ phase[r] = "tools"
    /\ phase' = [phase EXCEPT ![r] = "model"]
    /\ out' = [out EXCEPT ![r] = Append(@, TextSSE(<<"r">>))]
    /\ UNCHANGED <<shared, pc, session_id, message, message_id, session,
                   is_first_message, full_response, seen_tool_calls,
                   tool_calls_tracked, agent_message, rounds>>

(***************************************************************************)
(* One {"tools": ...} event: the tool results, which generate() only       *)
(* prints (server.py 383-392).                                             *)
(***************************************************************************)
ToolsNode(r) ==
    /\ pc[r] = "streaming"
    /\ phase[r] = "tools"
    /\ phase' = [phase EXCEPT ![r] = "model"]
    /\ UNCHANGED <<shared, pc, session_id, message, message_id, session,
                   is_first_message, full_response, seen_tool_calls,
                   tool_calls_tracked, out, agent_message, rounds>>

(***************************************************************************)
(* AgentLogger.log_response (observability.py 174-243): the new values of  *)
(* events and sessions.                                                    *)
(***************************************************************************)
log_response(sid, mid, user_message, agent_response, tool_calls, first) ==
    /\ logger_events' =
           Append(logger_events,
                  AgentResponseEvent(sid, mid, user_message, agent_response,
                                     tool_calls, first))
    /\ logger_sessions' =
           [s \in DOMAIN logger_sessions \cup {sid} |->
               IF s = sid
               THEN UpdatedMetrics(IF sid \in DOMAIN logger_sessions
                                   THEN logger_sessions[sid]
                                   ELSE NewSessionMetrics(sid),
                                   tool_calls)
               ELSE logger_sessions[s]]

\* the tail without the append of the assistant message
Finalize_NoAppend(r) ==
    /\ log_response(session_id[r], message_id[r], message[r], full_response[r],
                    tool_calls_tracked[r], is_first_message[r])
    /\ out' = [out EXCEPT ![r] = Append(@, DoneSSE(session_id[r]))]
    /\ pc' = [pc EXCEPT ![r] = "done"]
    /\ UNCHANGED <<MAX_MESSAGE_HISTORY, sessions, heap, turns, response,
                   session_id, message, message_id, session, is_first_message,
                   full_response, seen_tool_calls, tool_calls_tracked,
                   agent_message, phase, rounds>>

\* a tail that appends the assistant message to the session created last
Finalize_LastSession(r) ==
    /\ log_response(session_id[r], message_id[r], message[r], full_response[r],
                    tool_calls_tracked[r], is_first_message[r])
    /\ heap' = [heap EXCEPT ![Len(heap)] =
                   Append(@, Msg("assistant", full_response[r]))]
    /\ out' = [out EXCEPT ![r] = Append(@, DoneSSE(session_id[r]))]
    /\ pc' = [pc EXCEPT ![r] = "done"]
    /\ UNCHANGED <<MAX_MESSAGE_HISTORY, sessions, turns, response,
                   session_id, message, message_id, session, is_first_message,
                   full_response, seen_tool_calls, tool_calls_tracked,
                   agent_message, phase, rounds>>

\* a tail that stores the session under its id again
\* (sessions[session_id] = session)
Finalize_Restore(r) ==
    /\ log_response(session_id[r], message_id[r], message[r], full_response[r],
                    tool_calls_tracked[r], is_first_message[r])
    /\ sessions' = [s \in DOMAIN sessions \cup {session_id[r]} |->
                       IF s = session_id[r] THEN session[r] ELSE sessions[s]]
    /\ heap' = [heap EXCEPT ![session[r]] =
                   Append(@, Msg("assistant", full_response[r]))]
    /\ out' = [out EXCEPT ![r] = Append(@, DoneSSE(session_id[r]))]
    /\ pc' = [pc EXCEPT ![r] = "done"]
    /\ UNCHANGED <<MAX_MESSAGE_HISTORY, turns, response,
                   session_id, message, message_id, session, is_first_message,
                   full_response, seen_tool_calls, tool_calls_tracked,
                   agent_message, phase, rounds>>

(***************************************************************************)
(* The tail of generate() (server.py 494-508): log the response, append    *)
(* the assistant message to the session dict, yield done.                  *)
(***************************************************************************)
Finalize(r) ==
    /\ log_response(session_id[r], message_id[r], message[r], full_response[r],
                    tool_calls_tracked[r], is_first_message[r])
    /\ heap' = [heap EXCEPT ![session[r]] =
                   Append(@, Msg("assistant", full_response[r]))]
    /\ out' = [out EXCEPT ![r] = Append(@, DoneSSE(session_id[r]))]
    /\ pc' = [pc EXCEPT ![r] = "done"]
    /\ UNCHANGED <<MAX_MESSAGE_HISTORY, sessions, turns, response,
                   session_id, message, message_id, session, is_first_message, full_response,
                   seen_tool_calls, tool_calls_tracked, agent_message, phase,
                   rounds>>

\* agent.astream is exhausted: the loop ends and the tail runs
StreamEnd(r) ==
    /\ pc[r] = "streaming"
    /\ phase[r] = "end"
    /\ Finalize(r)

\* what str(e) of a raised exception is
ErrorMessages == {<<"x">>}

\* an except clause that also drops the text streamed so far
AgentRaise_DropsText(r, e) ==
    /\ pc[r] = "streaming"
    /\ phase[r] \in {"model", "tools"}
    /\ out' = [out EXCEPT ![r] = Append(@, ErrorSSE(e))]
    /\ pc' = [pc EXCEPT ![r] = "errored"]
    /\ full_response' = [full_response EXCEPT ![r] = <<>>]
    /\ UNCHANGED <<shared, session_id, message, message_id, session,
                   is_first_message, seen_tool_calls, tool_calls_tracked,
                   agent_message, phase, rounds>>

(***************************************************************************)
(* agent.astream raises (the model call or a tool fails): the except       *)
(* clause yields the error (server.py 488-492).                            *)
(***************************************************************************)
AgentRaise(r, e) ==
    /\ pc[r] = "streaming"
    /\ phase[r] \in {"model", "tools"}
    /\ out' = [out EXCEPT ![r] = Append(@, ErrorSSE(e))]
    /\ pc' = [pc EXCEPT ![r] = "errored"]
    /\ UNCHANGED <<shared, session_id, message, message_id, session,
                   is_first_message, full_response, seen_tool_calls,
                   tool_calls_tracked, agent_message, phase, rounds>>

\* the client took the error event: the tail runs
FinishAfterError(r) ==
    /\ pc[r] = "errored"
    /\ Finalize(r)

(***************************************************************************)
(* The client goes away while the response streams: the generator is       *)
(* closed where it waits, its tail never runs and its locals are gone;     *)
(* out keeps what the client received.                                     *)
(***************************************************************************)
ClientDisconnect(r) ==
    /\ pc[r] \in {"streaming", "errored"}
    /\ pc' = [pc EXCEPT ![r] = "closed"]
    /\ session_id' = [session_id EXCEPT ![r] = None]
    /\ message' = [message EXCEPT ![r] = <<>>]
    /\ message_id' = [message_id EXCEPT ![r] = 0]
    /\ session' = [session EXCEPT ![r] = 0]
    /\ is_first_message' = [is_first_message EXCEPT ![r] = FALSE]
    /\ full_response' = [full_response EXCEPT ![r] = <<>>]
    /\ seen_tool_calls' = [seen_tool_calls EXCEPT ![r] = {}]
    /\ tool_calls_tracked' = [tool_calls_tracked EXCEPT ![r] = <<>>]
    /\ agent_message' = [agent_message EXCEPT ![r] = NoMessage]
    /\ phase' = [phase EXCEPT ![r] = "model"]
    /\ rounds' = [rounds EXCEPT ![r] = 0]
    /\ UNCHANGED <<shared, out>>

\* an exchange: the request as <<endpoint, argument>>, the status code and
\* the JSON body (for an HTTPException, its detail)
Response(request, status_code, body) ==
    [request |-> request, status_code |-> status_code, body |-> body]

\* "deleted" whether or not the id is stored (sessions.pop(session_id, None))
delete_session_response_Pop(sid) ==
    Response(<<"delete_session", sid>>, 200, [status |-> "deleted"])

\* what DELETE /sessions/{session_id} returns or raises (server.py 523-526)
delete_session_response(sid) ==
    IF sid \in DOMAIN sessions
    THEN Response(<<"delete_session", sid>>, 200, [status |-> "deleted"])
    ELSE Response(<<"delete_session", sid>>, 404, "Session not found")

\* a DELETE that also forgets the metrics and the records of the id
delete_session_ClearsMetrics(sid) ==
    /\ sessions' = IF sid \in DOMAIN sessions
                   THEN [s \in DOMAIN sessions \ {sid} |-> sessions[s]]
                   ELSE sessions
    /\ logger_sessions' =
           [s \in DOMAIN logger_sessions \ {sid} |-> logger_sessions[s]]
    /\ logger_events' =
           FilterSeq(logger_events,
                     {e \in Range(logger_events) : e.session_id # sid})
    /\ UNCHANGED <<MAX_MESSAGE_HISTORY, heap, turns, locals>>

(***************************************************************************)
(* DELETE /sessions/{session_id} (server.py 520-526): what it does to the  *)
(* store.  The caller's view of it is delete_session_response.             *)
(***************************************************************************)
delete_session(sid) ==
    /\ sessions' = IF sid \in DOMAIN sessions
                   THEN [s \in DOMAIN sessions \ {sid} |-> sessions[s]]
                   ELSE sessions
    /\ UNCHANGED <<MAX_MESSAGE_HISTORY, heap, logger_events, logger_sessions,
                   turns, locals>>

\* the exchange of a DELETE
DeleteSession(sid) ==
    /\ delete_session(sid)
    /\ response' = delete_session_response(sid)

(***************************************************************************)
(* The metrics reads (observability.py 303-325, server.py 529-554).        *)
(* list(set(tools_used)) is the set of the names: its order is not         *)
(* modelled.  The response times are left out.                             *)
(***************************************************************************)
\* sum(1 for e in events if e.followed_clarification_protocol is False)
ProtocolViolations(events) ==
    Cardinality({i \in DOMAIN events :
                    events[i].followed_clarification_protocol = Some(FALSE)})

\* AgentLogger.get_session_summary: Null (None) or the summary dict
get_session_summary(sid) ==
    IF sid \notin DOMAIN logger_sessions
    THEN Null
    ELSE LET m == logger_sessions[sid]
             events == FilterSeq(logger_events,
                           {e \in Range(logger_events) : e.session_id = sid})
         IN  Some([session_id |-> sid,
                   message_count |-> m.message_count,
                   tool_call_count |-> m.tool_call_count,
                   tools_used |-> Range(m.tools_used),
                   protocol_violations |-> ProtocolViolations(events),
                   errors |-> m.errors])

\* an exchange of a metrics read; log_len is len(logger.events) when it was
\* served
ReadResponse(request, status_code, body) ==
    [request |-> request, status_code |-> status_code, body |-> body,
     log_len |-> Len(logger_events)]

\* what GET /metrics/session/{session_id} returns or raises
get_session_metrics_response(sid) ==
    LET summary == get_session_summary(sid)
    IN  IF summary = Null
        THEN ReadResponse(<<"get_session_metrics", sid>>, 404,
                          "Session not found")
        ELSE ReadResponse(<<"get_session_metrics", sid>>, 200, summary[1])

\* a read that enters the id it is asked about (sessions.setdefault)
get_session_metrics_Creates(sid) ==
    /\ logger_sessions' =
           [s \in DOMAIN logger_sessions \cup {sid} |->
               IF s \in DOMAIN logger_sessions
               THEN logger_sessions[s] ELSE NewSessionMetrics(s)]
    /\ response' = get_session_metrics_response(sid)
    /\ UNCHANGED <<MAX_MESSAGE_HISTORY, sessions, heap, logger_events, turns,
                   locals>>

\* GET /metrics/session/{session_id} (server.py 548-554)
get_session_metrics(sid) ==
    /\ response' = get_session_metrics_response(sid)
    /\ UNCHANGED <<MAX_MESSAGE_HISTORY, sessions, heap, logger_events,
                   logger_sessions, turns, locals>>

\* GET /metrics (server.py 529-545)
get_metrics ==
    /\ response' =
           ReadResponse(<<"get_metrics">>, 200,
               [sessions |-> [sid \in DOMAIN logger_sessions |->
                                 get_session_summary(sid)[1]],
                summary |-> [total_sessions |->
                                 Cardinality(DOMAIN logger_sessions),
                             total_events |-> Len(logger_events),
                             protocol_violations |->
                                 ProtocolViolations(logger_events)]])
    /\ UNCHANGED <<MAX_MESSAGE_HISTORY, sessions, heap, logger_events,
                   logger_sessions, turns, locals>>


(***************************************************************************)
(* POST /chat (server.py 127-195): get or create the session, append the   *)
(* user message, truncate, await agent.ainvoke, append the assistant       *)
(* message.  It logs nothing.                                              *)
(***************************************************************************)
ChatStart(r, sid_in, msg) ==
    /\ Free(r)
    /\ \E sid \in (IF sid_in = None THEN FreshIds ELSE {sid_in}) :
         LET w == WithSession(sid)
             o == w.sessions[sid]
         IN  /\ sessions' = w.sessions
             /\ heap' = [w.heap EXCEPT ![o] =
                    truncate_session_messages(
                        Append(@, Msg("user", msg)), MAX_MESSAGE_HISTORY)]
             /\ session_id' = [session_id EXCEPT ![r] = sid]
             /\ session' = [session EXCEPT ![r] = o]
    /\ turns' = turns + 1
    /\ message' = [message EXCEPT ![r] = msg]
    /\ message_id' = [message_id EXCEPT ![r] = 0]
    /\ pc' = [pc EXCEPT ![r] = "invoking"]
    /\ is_first_message' = [is_first_message EXCEPT ![r] = FALSE]
    /\ full_response' = [full_response EXCEPT ![r] = <<>>]
    /\ seen_tool_calls' = [seen_tool_calls EXCEPT ![r] = {}]
    /\ tool_calls_tracked' = [tool_calls_tracked EXCEPT ![r] = <<>>]
    /\ out' = [out EXCEPT ![r] = <<>>]
    /\ agent_message' = [agent_message EXCEPT ![r] = NoMessage]
    /\ phase' = [phase EXCEPT ![r] = "model"]
    /\ rounds' = [rounds EXCEPT ![r] = 0]
    /\ UNCHANGED <<MAX_MESSAGE_HISTORY, logger_events, logger_sessions,
                   response>>

\* "I processed your request. (Response extraction may need adjustment)"
FallbackText ==
    <<"I", " ", "p", "r", "o", "c", "e", "s", "s", "e", "d", " ", "y",
      "o", "u", "r", " ", "r", "e", "q", "u", "e", "s", "t", ".", " ",
      "(", "R", "e", "s", "p", "o", "n", "s", "e", " ", "e", "x", "t",
      "r", "a", "c", "t", "i", "o", "n", " ", "m", "a", "y", " ", "n",
      "e", "e", "d", " ", "a", "d", "j", "u", "s", "t", "m", "e", "n",
      "t", ")">>

\* response_text of the last AIMessage of the result (server.py 163-184)
ChatResponseText(m) ==
    IF TextContent(m) = <<>> THEN FallbackText ELSE TextContent(m)

\* agent.ainvoke returned; m is the last AIMessage of result["messages"]
ChatReturn(r, m) ==
    /\ pc[r] = "invoking"
    /\ heap' = [heap EXCEPT ![session[r]] =
                   Append(@, Msg("assistant", ChatResponseText(m)))]
    /\ response' = Response(<<"chat", session_id[r]>>, 200,
                            [session_id |-> session_id[r],
                             response |-> ChatResponseText(m),
                             tool_calls |-> m.tool_calls])
    /\ pc' = [pc EXCEPT ![r] = "returned"]
    /\ UNCHANGED <<MAX_MESSAGE_HISTORY, sessions, logger_events,
                   logger_sessions, turns, session_id, message, message_id,
                   session, is_first_message, full_response, seen_tool_calls,
                   tool_calls_tracked, out, agent_message, phase, rounds>>

\* agent.ainvoke raised: the handler ends with the exception
ChatRaise(r) ==
    /\ pc[r] = "invoking"
    /\ response' = Response(<<"chat", session_id[r]>>, 500,
                            "Internal Server Error")
    /\ pc' = [pc EXCEPT ![r] = "returned"]
    /\ UNCHANGED <<MAX_MESSAGE_HISTORY, sessions, heap, logger_events,
                   logger_sessions, turns, session_id, message, message_id,
                   session, is_first_message, full_response, seen_tool_calls,
                   tool_calls_tracked, out, agent_message, phase, rounds>>


(***************************************************************************)
(* The validation of the request body (server.py 111-113): FastAPI builds  *)
(* the ChatRequest before it calls chat or chat_stream, and answers 422    *)
(* itself when the message is shorter or longer than the Field allows.     *)
(***************************************************************************)
\* a check of max_length only
ChatRequestValid_MaxOnly(msg) == Len(msg) <= MaxMessageLength

ChatRequestValid(msg) ==
    Len(msg) >= MinMessageLength /\ Len(msg) <= MaxMessageLength

\* the request is answered without a call of the handler; the exchange keeps
\* the length of the message
RejectChatRequest(endpoint, sid_in, msg) ==
    /\ response' = Response(<<endpoint, sid_in, Len(msg)>>, 422,
                            "Unprocessable Entity")
    /\ UNCHANGED <<MAX_MESSAGE_HISTORY, sessions, heap, logger_events,
                   logger_sessions, turns, locals>>

\* POST /chat/stream with any body
PostChatStream(r, sid_in, msg) ==
    IF ChatRequestValid(msg)
    THEN ChatStreamStart(r, sid_in, msg)
    ELSE RejectChatRequest("chat_stream", sid_in, msg)

\* POST /chat with any body
PostChat(r, sid_in, msg) ==
    IF ChatRequestValid(msg)
    THEN ChatStart(r, sid_in, msg)
    ELSE RejectChatRequest("chat", sid_in, msg)


(***************************************************************************)
(* tools/scoring.py calculate_positioning_readiness.                       *)
(***************************************************************************)
\* [k for k, v in checks.items() if v == value], in the order of the dict
RECURSIVE KeysWhere(_, _)
KeysWhere(checks, value) ==
    IF checks = <<>>
    THEN <<>>
    ELSE (IF Head(checks)[2] = value THEN <<Head(checks)[1]>> ELSE <<>>)
         \o KeysWhere(Tail(checks), value)

ReadinessScore(score, strengths, gaps, next_action) ==
    [score |-> score, strengths |-> strengths, gaps |-> gaps,
     next_action |-> next_action]

\* one point for each check that holds
calculate_positioning_readiness_OnePoint(has_target_customer, has_competitive_alternative, has_key_differentiator, has_customer_proof, has_clear_category) ==
    LET checks ==
            << <<"Target Customer Definition", has_target_customer>>,
               <<"Competitive Alternative Identified",
                 has_competitive_alternative>>,
               <<"Key Differentiator Articulated", has_key_differentiator>>,
               <<"Customer Proof Available", has_customer_proof>>,
               <<"Market Category Defined", has_clear_category>> >>
        strengths == KeysWhere(checks, TRUE)
    IN  ReadinessScore(Len(strengths), strengths, KeysWhere(checks, FALSE),
                       "")

calculate_positioning_readiness(has_target_customer, has_competitive_alternative, has_key_differentiator, has_customer_proof, has_clear_category) ==
    LET checks ==
            << <<"Target Customer Definition", has_target_customer>>,
               <<"Competitive Alternative Identified",
                 has_competitive_alternative>>,
               <<"Key Differentiator Articulated", has_key_differentiator>>,
               <<"Customer Proof Available", has_customer_proof>>,
               <<"Market Category Defined", has_clear_category>> >>
        strengths == KeysWhere(checks, TRUE)
        gaps == KeysWhere(checks, FALSE)
        score == Len(strengths) * 2
        next_action ==
            IF ~has_target_customer
            THEN "Define your target customer segment first"
            ELSE IF ~has_competitive_alternative
            THEN "Identify what customers use before finding you"
            ELSE IF ~has_key_differentiator
            THEN "Articulate what you have that alternatives don't"
            ELSE IF ~has_customer_proof
            THEN "Collect customer testimonials and use cases"
            ELSE IF ~has_clear_category
            THEN "Define your market category"
            ELSE "You're ready to create positioning!"
    IN  ReadinessScore(score, strengths, gaps, next_action)

\* calculate_positioning_readiness.invoke(args): the call and its result
InvokeReadiness(args) ==
    /\ response' =
           [request |-> <<"calculate_positioning_readiness", args>>,
            result |-> calculate_positioning_readiness(
                           args[1], args[2], args[3], args[4], args[5])]
    /\ UNCHANGED <<MAX_MESSAGE_HISTORY, sessions, heap, logger_events,
                   logger_sessions, turns, locals>>


(***************************************************************************)
(* What the model answers: AIMessages as langchain delivers them.          *)
(* content is a string or a list of text / tool_use blocks; with the       *)
(* Anthropic format a tool call is in tool_calls and in a tool_use block.  *)
(***************************************************************************)
AIMessage(tool_calls, content) == [tool_calls |-> tool_calls, content |-> content]
StrContent(text) == [kind |-> "str", text |-> text]
ListContent(blocks) == [kind |-> "list", blocks |-> blocks]
TextBlock(text) == [type |-> "text", text |-> text]
ToolUseBlock(name, input) == [type |-> "tool_use", name |-> name, input |-> input]
ToolCall(name, args) == [name |-> name, args |-> args]

ArgsXY == << <<"x", 1>>, <<"y", 2>> >>
ArgsYX == << <<"y", 2>>, <<"x", 1>> >>

\* final answers: no tool call
FinalMessages ==
    { AIMessage(<<>>, StrContent(<<"a", "b">>)),
      AIMessage(<<>>, StrContent(<<"c", "?">>)),
      AIMessage(<<>>, StrContent(<<>>)) }

\* answers that request tools
ToolMessages ==
    { AIMessage(<<ToolCall("t", ArgsXY)>>, StrContent(<<>>)),
      AIMessage(<<ToolCall("t", ArgsXY), ToolCall("t", ArgsYX)>>,
                StrContent(<<"c">>)),
      AIMessage(<<ToolCall("t", ArgsXY)>>,
                ListContent(<<TextBlock(<<"a", "b">>),
                              ToolUseBlock("t", ArgsYX)>>)),
      AIMessage(<<ToolCall("s", <<>>), ToolCall("t", ArgsYX)>>,
                ListContent(<<TextBlock(<<"d">>), ToolUseBlock("s", <<>>),
                              TextBlock(<<"?">>), ToolUseBlock("t", ArgsYX)>>)) }

TurnMessages == FinalMessages \cup ToolMessages

\* the answers of Spec: one final, one with a tool call in both formats
SpecMessages ==
    { AIMessage(<<>>, StrContent(<<"a", "?">>)),
      AIMessage(<<ToolCall("t", ArgsXY)>>,
                ListContent(<<TextBlock(<<"b">>), ToolUseBlock("t", ArgsYX)>>)) }

\* the answers of a model that requests a tool in every response
CapMessages ==
    { AIMessage(<<ToolCall("t", ArgsXY)>>, StrContent(<<>>)),
      AIMessage(<<ToolCall("s", <<>>)>>, StrContent(<<"a">>)) }

(***************************************************************************)
(* Spec: concurrent requests on shared sessions and the shared log.        *)
(***************************************************************************)
\* Request slots and session ids are interchangeable: a request takes slot r1
\* when it is free, and the first request of a behaviour names s1 or no id.
SlotFor(r) == r = "r1" \/ ~Free("r1")
IdFor(sid_in) == turns > 0 \/ sid_in \in {"s1", None}

Next ==
    \/ \E r \in Reqs, sid_in \in SessionIds \cup {None}, msg \in {<<"u">>} :
         /\ turns < MaxTurns /\ SlotFor(r) /\ IdFor(sid_in)
         /\ ChatStreamStart(r, sid_in, msg)
    \/ \E r \in Reqs, m \in SpecMessages :
         rounds[r] < MaxRounds /\ AgentNode(r, m)
    \/ \E r \in Reqs : ToolsNode(r)
    \/ \E r \in Reqs : StreamEnd(r)
    \/ \E r \in Reqs, e \in ErrorMessages : AgentRaise(r, e)
    \/ \E r \in Reqs : FinishAfterError(r)
    \/ \E r \in Reqs : ClientDisconnect(r)
    \/ \E sid \in SessionIds : delete_session(sid) /\ UNCHANGED response

Spec == Init /\ [][Next]_vars

(***************************************************************************)
(* TurnSpec: one streaming turn, with every shape of model response.       *)
(***************************************************************************)
TurnNext ==
    \/ \E msg \in UserMessages :
         turns < 1 /\ ChatStreamStart("r1", "s1", msg)
    \/ \E m \in TurnMessages :
         rounds["r1"] < TurnRounds /\ AgentNode("r1", m)
    \/ ToolsNode("r1")
    \/ StreamEnd("r1")
    \/ \E e \in ErrorMessages : AgentRaise("r1", e)
    \/ FinishAfterError("r1")

TurnSpec == Init /\ [][TurnNext]_vars

(***************************************************************************)
(* CapSpec: one streaming turn against a model that requests a tool in     *)
(* every response.                                                         *)
(***************************************************************************)
CapNext ==
    \/ \E msg \in UserMessages :
         turns < 1 /\ ChatStreamStart("r1", None, msg)
    \/ \E m \in CapMessages :
         rounds["r1"] < CapRounds /\ AgentNode("r1", m)
    \/ ToolsNode("r1")
    \/ \E e \in ErrorMessages : AgentRaise("r1", e)
    \/ FinishAfterError("r1")

CapSpec == Init /\ [][CapNext]_vars

(***************************************************************************)
(* TruncSpec: append and truncate on any stored history.                   *)
(***************************************************************************)
HistoryMessages ==
    {SystemMessage, Msg("user", <<"u">>), Msg("assistant", <<"a">>)}

Histories == UNION {[1..n -> HistoryMessages] : n \in 0..MaxLen}

TruncInit ==
    /\ MAX_MESSAGE_HISTORY \in 0..MaxHistory
    /\ sessions = [s \in {"s1"} |-> 1]
    /\ heap \in {<<h>> : h \in Histories}
    /\ logger_events = <<>>
    /\ logger_sessions = <<>>
    /\ turns = 0
    /\ response = NoResponse
    /\ LocalsInit

TruncNext ==
    \E r \in Reqs, msg \in UserMessages :
        turns < 2 /\ ChatStreamStart(r, "s1", msg)

TruncSpec == TruncInit /\ [][TruncNext]_vars

(***************************************************************************)
(* ApiSpec: the endpoints one after the other on one request slot: the     *)
(* streaming chat, POST /chat, DELETE /sessions and the metrics reads.     *)
(***************************************************************************)
\* the last AIMessage of what agent.ainvoke returns
ChatResults ==
    { AIMessage(<<>>, StrContent(<<"a", "?">>)),
      AIMessage(<<>>, ListContent(<<TextBlock(<<>>)>>)) }

ApiNext ==
    \/ \E sid_in \in SessionIds \cup {None} :
         /\ turns < ApiTurns /\ IdFor(sid_in)
         /\ ChatStreamStart("r1", sid_in, <<"u">>)
    \/ \E sid_in \in SessionIds \cup {None} :
         /\ turns < ApiTurns /\ IdFor(sid_in)
         /\ ChatStart("r1", sid_in, <<"u">>)
    \/ \E m \in SpecMessages :
         rounds["r1"] < ApiRounds /\ AgentNode("r1", m)
    \/ ToolsNode("r1")
    \/ StreamEnd("r1")
    \/ ClientDisconnect("r1")
    \/ \E m \in ChatResults : ChatReturn("r1", m)
    \/ ChatRaise("r1")
    \/ \E sid \in SessionIds : DeleteSession(sid)
    \/ \E sid \in SessionIds : get_session_metrics(sid)
    \/ get_metrics

ApiSpec == Init /\ [][ApiNext]_vars

(***************************************************************************)
(* AuditSpec: the protocol analysis on every response text, number of      *)
(* tool calls and first / later turn.  The turn's text and tool calls are  *)
(* what the model answered; log_response analyses them in the tail.  One   *)
(* streaming turn is served, as the first turn of its session or after a   *)
(* POST /chat on it.                                                       *)
(***************************************************************************)
Rep(c, n) == [i \in 1..n |-> c]

\* lines of a response: empty, short and long, with and without '?', of
\* MinQuestionLen characters and one more, with blanks around
AuditLines ==
    { <<>>,
      <<"a", "b">>,
      <<"a", "?">>,
      Rep("a", MinQuestionLen + 1),
      Rep("a", MinQuestionLen) \o <<"?">>,
      Rep("c", MinQuestionLen - 1) \o <<"?">>,
      <<" ">> \o Rep("d", MinQuestionLen - 1) \o <<"?", " ">>,
      <<" ">> \o Rep("e", MinQuestionLen) \o <<"?">> }

RECURSIVE JoinLines(_)
\* "\n".join(lines)
JoinLines(lines) ==
    IF Len(lines) = 1
    THEN lines[1]
    ELSE lines[1] \o <<"\n">> \o JoinLines(Tail(lines))

AuditTexts ==
    {JoinLines(ls) : ls \in UNION {[1..n -> AuditLines] : n \in 1..MaxAuditLines}}

\* n tool calls with different arguments
AuditCalls(n) == [i \in 1..n |-> ToolCall("t", << <<"x", i>> >>)]

AuditMessages ==
    {AIMessage(<<>>, StrContent(t)) : t \in AuditTexts}
    \cup {AIMessage(AuditCalls(n), StrContent(<<>>)) : n \in 1..MaxAuditTools}

AuditNext ==
    \/ turns = 0 /\ ChatStart("r1", "s1", <<"u">>)
    \/ \E m \in ChatResults : ChatReturn("r1", m)
    \/ /\ turns < MaxTurns /\ pc["r1"] # "done"
       /\ ChatStreamStart("r1", "s1", <<"u">>)
    \/ \E m \in AuditMessages :
         rounds["r1"] < ApiRounds /\ AgentNode("r1", m)
    \/ ToolsNode("r1")
    \/ StreamEnd("r1")

AuditSpec == Init /\ [][AuditNext]_vars

(***************************************************************************)
(* ValidSpec: chat requests with messages of every length class: empty,    *)
(* one character, MaxMessageLength characters and one more.  One request   *)
(* is accepted, on an empty store; requests are rejected before, during    *)
(* and after its turn.                                                     *)
(***************************************************************************)
RequestMessages ==
    { <<>>, <<"u">>, Rep("x", MaxMessageLength),
      Rep("x", MaxMessageLength + 1) }

ValidNext ==
    \/ \E sid_in \in {"s1", None}, msg \in RequestMessages :
         /\ ChatRequestValid(msg) => sessions = <<>>
         /\ PostChatStream("r1", sid_in, msg)
    \/ \E sid_in \in {"s1", None}, msg \in RequestMessages :
         /\ ChatRequestValid(msg) => sessions = <<>>
         /\ PostChat("r1", sid_in, msg)
    \/ \E m \in SpecMessages :
         rounds["r1"] < MaxRounds /\ AgentNode("r1", m)
    \/ ToolsNode("r1")
    \/ StreamEnd("r1")
    \/ \E m \in ChatResults : ChatReturn("r1", m)

ValidSpec == Init /\ [][ValidNext]_vars

(***************************************************************************)
(* ScoreSpec: the readiness tool called with every combination of its      *)
(* arguments, before, during and after streaming turns.                    *)
(***************************************************************************)
ScoreNext ==
    \/ \E args \in [1..5 -> BOOLEAN] : InvokeReadiness(args)
    \/ turns < MaxTurns /\ ChatStreamStart("r1", "s1", <<"u">>)
    \/ \E m \in SpecMessages :
         rounds["r1"] < MaxRounds /\ AgentNode("r1", m)
    \/ ToolsNode("r1")
    \/ StreamEnd("r1")

ScoreSpec == Init /\ [][ScoreNext]_vars
(***************************************************************************)
(* ConcSpec: two streaming turns in flight at the same time, each on its   *)
(* own session id, with its own user message and its own model answers.    *)
(***************************************************************************)
ConcId(r) == IF r = "r1" THEN "s1" ELSE "s2"
ConcMessage(r) == IF r = "r1" THEN <<"u">> ELSE <<"v">>

\* what the model answers to the turn of slot r
ConcMessages(r) ==
    IF r = "r1"
    THEN SpecMessages
    ELSE { AIMessage(<<>>, StrContent(<<"c">>)),
           AIMessage(<<ToolCall("s", <<>>)>>, StrContent(<<"d">>)) }

ConcNext ==
    \/ \E r \in Reqs :
         pc[r] = "idle" /\ ChatStreamStart(r, ConcId(r), ConcMessage(r))
    \/ \E r \in Reqs :
         \E m \in ConcMessages(r) : rounds[r] < MaxRounds /\ AgentNode(r, m)
    \/ \E r \in Reqs : ToolsNode(r)
    \/ \E r \in Reqs : StreamEnd(r)
    \/ \E r \in Reqs, e \in ErrorMessages : AgentRaise(r, e)
    \/ \E r \in Reqs : FinishAfterError(r)

ConcSpec == Init /\ [][ConcNext]_vars



(***************************************************************************)
(* Properties.                                                             *)
(***************************************************************************)
\* the turn of slot r took its request in this step
Started(r) == pc[r] # "streaming" /\ pc'[r] = "streaming"

\* C1: appending a message and truncating yields a history of at most
\* MAX_MESSAGE_HISTORY + 1 messages, and a history that began with a system
\* message still begins with that system message.
C1_TruncateBound ==
    [][\A r \in Reqs :
         Started(r) =>
           LET o == session'[r]
           IN  /\ Len(heap'[o]) <= MAX_MESSAGE_HISTORY + 1
               /\ (heap[o] # <<>> /\ heap[o][1].role = "system")
                    => heap'[o][1] = heap[o][1]]_vars

\* the tool-call requests of an AIMessage, from tool_calls and from the
\* tool_use blocks of its content
ToolUseRequests(m) ==
    IF m.content.kind = "list"
    THEN {ToolCall(b.name, b.input) :
             b \in {c \in Range(m.content.blocks) : c.type = "tool_use"}}
    ELSE {}
Requests(m) == Range(m.tool_calls) \cup ToolUseRequests(m)

\* how many tool_call events of a stream, and how many tracked
\* ToolCallEvents, are for the request q
EventsFor(o, q) ==
    Cardinality({i \in DOMAIN o :
                    /\ o[i].type = "tool_call"
                    /\ o[i].name = q.name
                    /\ SameArgs(o[i].args, q.args)})
TrackedFor(t, q) ==
    Cardinality({i \in DOMAIN t :
                    /\ t[i].tool_name = q.name
                    /\ SameArgs(t[i].args, q.args)})

\* C2: the tool-call requests of one model response that have the same name
\* and the same arguments, in whatever key order and whether they come as
\* tool_calls entries or as tool_use blocks, give exactly one tool_call event
\* and exactly one ToolCallEvent of the turn.
C2_OneEventPerRequest ==
    \A r \in Reqs :
        \A q \in Requests(agent_message[r]) :
            /\ EventsFor(out[r], q) = 1
            /\ TrackedFor(tool_calls_tracked[r], q) = 1

\* a response was handled that names one call twice, in tool_calls and in a
\* tool_use block, with the argument keys in different orders
C2_Witness ==
    \E r \in Reqs :
        /\ pc[r] = "streaming"
        /\ \E tc \in Range(agent_message[r].tool_calls) :
             \E q \in ToolUseRequests(agent_message[r]) :
                /\ tc.name = q.name
                /\ SameArgs(tc.args, q.args)
                /\ tc.args # q.args
                /\ EventsFor(out[r], q) = 1

\* C3: a turn handles at most 10 model rounds, also against a model that
\* requests a tool call in every response.
C3_IterationCap == \A r \in Reqs : rounds[r] <= 10

\* the characters of the text events of a stream, in order
RECURSIVE StreamedText(_)
StreamedText(o) ==
    IF o = <<>>
    THEN <<>>
    ELSE (IF Head(o).type = "text" THEN Head(o).content ELSE <<>>)
         \o StreamedText(Tail(o))

\* the text events among the events a step added to a stream
TextEventsOf(o) == FilterSeq(o, {e \in Range(o) : e.type = "text"})

\* C4: the text of every model response is emitted in full, one character
\* per text event, and is appended to the turn's final text, in every round.
C4_TextInFull ==
    [][\A r \in Reqs :
         (pc[r] = "streaming" /\ rounds'[r] = rounds[r] + 1) =>
           LET text == TextContent(agent_message'[r])
               added == SubSeq(out'[r], Len(out[r]) + 1, Len(out'[r]))
           IN  /\ full_response'[r] = full_response[r] \o text
               /\ TextEventsOf(added) = TextEvents(text)]_vars

\* C5: every event of a stream has type tool_call, text or done, and the
\* content of every text event is one character.
C5_EventShapes ==
    \A r \in Reqs :
        \A i \in DOMAIN out[r] :
            /\ out[r][i].type \in {"tool_call", "text", "done"}
            /\ out[r][i].type = "text" => Len(out[r][i].content) = 1

DoneCount(o) == Cardinality({i \in DOMAIN o : o[i].type = "done"})
\* the stream holds the event the except clause yields
HasError(o) ==
    \E i \in DOMAIN o, e \in ErrorMessages : o[i] = ErrorSSE(e)

\* C6: a stream that ran to its end holds exactly one done event, as its
\* last event, with the session id the request was served under; no other
\* stream holds a done event.
C6_OneDoneLast ==
    \A r \in Reqs :
        /\ pc[r] = "done" =>
             /\ DoneCount(out[r]) = 1
             /\ out[r][Len(out[r])] = [type |-> "done",
                                       session_id |-> session_id[r]]
             /\ session_id[r] \in SessionIds
        /\ pc[r] # "done" => DoneCount(out[r]) = 0

\* a stream ended with done after the agent call raised
C6_Witness ==
    \E r \in Reqs :
        /\ pc[r] = "done"
        /\ HasError(out[r])
        /\ out[r][Len(out[r])].type = "done"

\* the records of the log for the turn with this message id
RecordsIn(events, mid) ==
    {i \in DOMAIN events : events[i].message_id = mid}
RecordsOf(mid) == RecordsIn(logger_events, mid)

\* the (name, args) of the tool_call events of a stream, in order
ToolCallsOf(o) ==
    LET tcs == FilterSeq(o, {e \in Range(o) : e.type = "tool_call"})
    IN  [i \in DOMAIN tcs |-> ToolCall(tcs[i].name, tcs[i].args)]
\* the (name, args) of the ToolCallEvents of a record
ToolCallsIn(tool_calls) ==
    [i \in DOMAIN tool_calls |->
        ToolCall(tool_calls[i].tool_name, tool_calls[i].args)]

\* C7: when the agent call raises, the stream gets an error event and goes
\* on to its end; the turn is recorded once, with the text and the tool calls
\* streamed before the failure, and that text is appended to the session as
\* the assistant message.
C7_RaiseIsRecorded ==
    [][\A r \in Reqs :
         /\ (pc[r] = "streaming" /\ pc'[r] = "errored") =>
               /\ HasError(out'[r])
               /\ SubSeq(out'[r], 1, Len(out[r])) = out[r]
         /\ (pc[r] = "errored" /\ pc'[r] \notin {"errored", "closed"}) =>
               LET before == SubSeq(out[r], 1, Len(out[r]) - 1)
                   text == StreamedText(before)
                   rec == logger_events'[Len(logger_events')]
               IN  /\ pc'[r] = "done"
                   /\ RecordsOf(message_id[r]) = {}
                   /\ logger_events' = Append(logger_events, rec)
                   /\ rec.message_id = message_id[r]
                   /\ rec.session_id = session_id[r]
                   /\ rec.agent_response = text
                   /\ ToolCallsIn(rec.tool_calls) = ToolCallsOf(before)
                   /\ heap'[session[r]] =
                          Append(heap[session[r]], Msg("assistant", text))
                   /\ out'[r] = Append(out[r], DoneSSE(session_id[r]))]_vars

\* a turn that had streamed text and a tool call when the agent call raised
\* is recorded
C7_Witness ==
    \E r \in Reqs :
        /\ pc[r] = "done"
        /\ HasError(out[r])
        /\ full_response[r] # <<>>
        /\ tool_calls_tracked[r] # <<>>
        /\ \E i \in RecordsOf(message_id[r]) :
              /\ logger_events[i].agent_response = full_response[r]
              /\ logger_events[i].tool_calls = tool_calls_tracked[r]

\* C9: a streaming turn appends its assistant message and its one TurnRecord
\* in the step that emits done, not before and not again: a turn in flight
\* has no record, a turn whose stream holds done has exactly one.
C9_OneRecordBeforeDone ==
    [][\A r \in Reqs :
         /\ (DoneCount(out[r]) = 0 /\ DoneCount(out'[r]) = 1) =>
               LET rec == logger_events'[Len(logger_events')]
               IN  /\ logger_events' = Append(logger_events, rec)
                   /\ rec.message_id = message_id[r]
                   /\ rec.agent_response = full_response[r]
                   /\ heap'[session[r]] =
                          Append(heap[session[r]],
                                 Msg("assistant", full_response[r]))
         /\ pc'[r] \in {"streaming", "errored"} =>
               RecordsIn(logger_events', message_id'[r]) = {}
         /\ pc'[r] = "done" =>
               Cardinality(RecordsIn(logger_events', message_id'[r])) = 1]_vars

\* two turns ran to done; the session of the later one holds its assistant
\* message last
C9_Witness ==
    \E r \in Reqs :
        /\ pc[r] = "done"
        /\ ~HasError(out[r])
        /\ Len(logger_events) = 2
        /\ logger_events[2].message_id = message_id[r]
        /\ heap[session[r]][Len(heap[session[r]])] =
               Msg("assistant", full_response[r])

\* sum(len(e.tool_calls) for e in events if e.session_id == sid)
RECURSIVE ToolCallsRecorded(_, _)
ToolCallsRecorded(events, sid) ==
    IF events = <<>>
    THEN 0
    ELSE (IF Head(events).session_id = sid
          THEN Len(Head(events).tool_calls) ELSE 0)
         + ToolCallsRecorded(Tail(events), sid)

\* the number of records of the log for a session id
TurnsRecorded(events, sid) ==
    Cardinality({i \in DOMAIN events : events[i].session_id = sid})

\* C10: for every session id with metrics, tool_call_count is the sum of the
\* numbers of tool calls of the records logged for that id and message_count
\* is the number of those records; every record's id has metrics.
C10_CountersMatchLog ==
    /\ \A sid \in DOMAIN logger_sessions :
          /\ logger_sessions[sid].tool_call_count =
                 ToolCallsRecorded(logger_events, sid)
          /\ logger_sessions[sid].message_count =
                 TurnsRecorded(logger_events, sid)
    /\ \A i \in DOMAIN logger_events :
          logger_events[i].session_id \in DOMAIN logger_sessions

\* a session id with two recorded turns, one with a tool call and one without
C10_Witness ==
    \E sid \in DOMAIN logger_sessions :
        /\ logger_sessions[sid].message_count = 2
        /\ logger_sessions[sid].tool_call_count = 1

\* the exchange is one of a metrics read
IsRead(resp) ==
    /\ resp.request # <<>>
    /\ resp.request[1] \in {"get_session_metrics", "get_metrics"}

\* C11: a metrics read changes neither the event log nor any SessionMetrics
\* nor the session store, and two reads of the same endpoint with no record
\* logged in between return the same value; the metrics change only when a
\* record is logged.
C11_ReadsDoNotMutate ==
    [][/\ (IsRead(response') /\ response' # response) =>
              UNCHANGED <<logger_events, logger_sessions, sessions, heap>>
       /\ (/\ IsRead(response) /\ IsRead(response')
           /\ response'.request = response.request
           /\ response'.log_len = response.log_len) =>
              /\ response'.status_code = response.status_code
              /\ response'.body = response.body
       /\ logger_sessions' # logger_sessions =>
              Len(logger_events') = Len(logger_events) + 1]_vars

\* the summary of a session id was read after a turn with a tool call was
\* recorded for it, and no record was logged since
C11_Witness ==
    /\ response.request # <<>>
    /\ response.request[1] = "get_session_metrics"
    /\ response.status_code = 200
    /\ response.body.message_count = 1
    /\ response.body.tools_used = {"t"}
    /\ response.log_len = Len(logger_events)

\* C16: DELETE of an id that is not stored answers 404 and changes neither
\* the store nor the log nor the metrics; DELETE of a stored id answers
\* "deleted" and removes that id and no other from the store, so that the
\* next DELETE of the id answers 404; nothing else removes a session.
C16_DeleteSession ==
    [][/\ \A sid \in SessionIds :
            (/\ response' # response
             /\ response'.request = <<"delete_session", sid>>) =>
               IF sid \in DOMAIN sessions
               THEN /\ response'.status_code = 200
                    /\ DOMAIN sessions' = DOMAIN sessions \ {sid}
                    /\ \A s \in DOMAIN sessions' : sessions'[s] = sessions[s]
                    /\ UNCHANGED <<heap, logger_events, logger_sessions>>
               ELSE /\ response'.status_code = 404
                    /\ UNCHANGED <<sessions, heap, logger_events,
                                   logger_sessions>>
       /\ \A sid \in DOMAIN sessions \ DOMAIN sessions' :
            /\ DOMAIN sessions' = DOMAIN sessions \ {sid}
            /\ \A s \in DOMAIN sessions' : sessions'[s] = sessions[s]
            /\ response'.request = <<"delete_session", sid>>
            /\ response'.status_code = 200]_vars

\* a session that had a recorded turn was deleted, and the last DELETE of its
\* id answered 404
C16_Witness ==
    \E sid \in DOMAIN logger_sessions \ DOMAIN sessions :
        /\ response.request = <<"delete_session", sid>>
        /\ response.status_code = 404

\* the record of the turn slot r served, and its verdict
TurnRecord(r) ==
    logger_events[CHOOSE i \in RecordsOf(message_id[r]) : TRUE]
Verdict(rec) ==
    <<rec.followed_clarification_protocol, rec.clarification_question>>

\* the line of a text that holds position k
LineAt(text, k) ==
    LET before == {j \in 1..(k - 1) : text[j] = "\n"}
        after == {j \in (k + 1)..Len(text) : text[j] = "\n"}
        from == IF before = {}
                THEN 1
                ELSE (CHOOSE j \in before : \A i \in before : i <= j) + 1
        to == IF after = {}
              THEN Len(text)
              ELSE (CHOOSE j \in after : \A i \in after : j <= i) - 1
    IN  SubSeq(text, from, to)

\* the length of a line without the blanks at its ends
TrimmedLength(line) ==
    LET ink == {i \in DOMAIN line : ~IsSpace(line[i])}
    IN  IF ink = {}
        THEN 0
        ELSE (CHOOSE i \in ink : \A j \in ink : j <= i)
             - (CHOOSE i \in ink : \A j \in ink : i <= j) + 1

\* the positions of '?' in a text, and those in a line of trimmed length
\* above 10
QuestionMarks(text) == {k \in DOMAIN text : text[k] = "?"}
LongQuestionMarks(text) ==
    {k \in QuestionMarks(text) : TrimmedLength(LineAt(text, k)) > 10}
Least(S) == CHOOSE k \in S : \A j \in S : k <= j

\* C12: a recorded turn that was not the first of its session has the
\* verdict (null, null), whatever its text and its tool calls.
C12_LaterTurnNotAudited ==
    \A r \in Reqs :
        (pc[r] = "done" /\ ~is_first_message[r]) =>
            Verdict(TurnRecord(r)) = <<Null, Null>>

\* a later turn with tool calls and a long question was recorded
C12_Witness ==
    \E r \in Reqs :
        /\ pc[r] = "done" /\ ~is_first_message[r]
        /\ TurnRecord(r).tool_calls # <<>>
        /\ LongQuestionMarks(TurnRecord(r).agent_response) # {}

\* C13: a recorded first turn with at least one tool call has the verdict
\* false; its question is the line of the first '?' of the text, of whatever
\* length, and null when the text has no '?'.
C13_ToolCallsViolate ==
    \A r \in Reqs :
        (/\ pc[r] = "done" /\ is_first_message[r]
         /\ Len(TurnRecord(r).tool_calls) >= 1) =>
            LET text == TurnRecord(r).agent_response
            IN  Verdict(TurnRecord(r)) =
                    <<Some(FALSE),
                      IF QuestionMarks(text) = {}
                      THEN Null
                      ELSE Some(LineAt(text, Least(QuestionMarks(text))))>>

\* a first turn with tool calls was recorded whose only '?' is in a short
\* second line
C13_Witness ==
    \E r \in Reqs :
        /\ pc[r] = "done" /\ is_first_message[r]
        /\ TurnRecord(r).tool_calls # <<>>
        /\ TurnRecord(r).agent_response = <<"a", "b", "\n", "a", "?">>
        /\ TurnRecord(r).clarification_question = Some(<<"a", "?">>)

\* C14: a recorded first turn with no tool call whose text has a '?' in a
\* line of trimmed length above 10 has the verdict true, and its question is
\* the first such line.
C14_QuestionComplies ==
    \A r \in Reqs :
        (/\ pc[r] = "done" /\ is_first_message[r]
         /\ TurnRecord(r).tool_calls = <<>>
         /\ LongQuestionMarks(TurnRecord(r).agent_response) # {}) =>
            LET text == TurnRecord(r).agent_response
            IN  Verdict(TurnRecord(r)) =
                    <<Some(TRUE),
                      Some(LineAt(text, Least(LongQuestionMarks(text))))>>

\* a first turn with no tool call was recorded whose first '?' line is long
\* only with its blanks and whose second '?' line is long
C14_Witness ==
    \E r \in Reqs :
        /\ pc[r] = "done" /\ is_first_message[r]
        /\ TurnRecord(r).tool_calls = <<>>
        /\ LET text == TurnRecord(r).agent_response
           IN  /\ LongQuestionMarks(text) # {}
               /\ Least(LongQuestionMarks(text)) # Least(QuestionMarks(text))
               /\ Len(LineAt(text, Least(QuestionMarks(text)))) > 10

\* C15: a recorded first turn with no tool call and no '?' in its text has
\* the verdict (null, null).
C15_NoQuestionNoVerdict ==
    \A r \in Reqs :
        (/\ pc[r] = "done" /\ is_first_message[r]
         /\ TurnRecord(r).tool_calls = <<>>
         /\ QuestionMarks(TurnRecord(r).agent_response) = {}) =>
            Verdict(TurnRecord(r)) = <<Null, Null>>

\* a first turn with no tool call and a long text without '?' was recorded
C15_Witness ==
    \E r \in Reqs :
        /\ pc[r] = "done" /\ is_first_message[r]
        /\ TurnRecord(r).tool_calls = <<>>
        /\ QuestionMarks(TurnRecord(r).agent_response) = {}
        /\ Len(TurnRecord(r).agent_response) > 10

\* C17: a chat request whose message is empty or longer than 50000
\* characters is answered 422 in a step that leaves the store, the session
\* histories, the log, the metrics and every stream as they were, and no
\* turn starts for such a message: every turn that starts has a message of
\* 1 to 50000 characters, and only a message outside that range is rejected.
C17_InvalidMessageRejected ==
    [][/\ (response' # response /\ response'.status_code = 422) =>
              /\ UNCHANGED <<sessions, heap, logger_events, logger_sessions,
                             turns, pc, out>>
              /\ ~(/\ response'.request[3] >= 1
                   /\ response'.request[3] <= 50000)
       /\ \A r \in Reqs :
              (pc'[r] # pc[r] /\ pc'[r] \in {"streaming", "invoking"}) =>
                  /\ Len(message'[r]) >= 1
                  /\ Len(message'[r]) <= 50000
                  /\ heap'[session'[r]][Len(heap'[session'[r]])] =
                         Msg("user", message'[r])]_vars

\* a turn with a message of 50000 characters was recorded, and the last
\* request, with one character more, was rejected
C17_Witness ==
    /\ response.request # <<>>
    /\ response.status_code = 422
    /\ response.request[3] = 50001
    /\ \E i \in DOMAIN logger_events :
          Len(logger_events[i].user_message) = 50000

\* C18: when a request appends its user message to a history that starts
\* with the system message and the history is then longer than
\* MAX_MESSAGE_HISTORY + 1, the stored history becomes that system message
\* followed by the MAX_MESSAGE_HISTORY most recent messages in their order;
\* a history of at most MAX_MESSAGE_HISTORY + 1 messages is stored as it is.
C18_TruncateExact ==
    [][\A r \in Reqs :
         Started(r) =>
           LET o == session'[r]
               h == Append(heap[o], Msg("user", message'[r]))
               N == MAX_MESSAGE_HISTORY
           IN  IF Len(h) <= N + 1
               THEN heap'[o] = h
               ELSE h[1].role = "system" =>
                      heap'[o] =
                          <<h[1]>> \o SubSeq(h, Len(h) - N + 1, Len(h))]_vars

\* the exchange is a call of the readiness tool
IsReadiness(resp) ==
    /\ resp.request # <<>>
    /\ resp.request[1] = "calculate_positioning_readiness"

\* the names of the five checks, in the order of the arguments
CheckNames ==
    <<"Target Customer Definition", "Competitive Alternative Identified",
      "Key Differentiator Articulated", "Customer Proof Available",
      "Market Category Defined">>

Audited(sid) ==
    {i \in DOMAIN logger_events :
        /\ logger_events[i].session_id = sid
        /\ logger_events[i].followed_clarification_protocol # Null}

\* the session dicts that delete_session removed from the store
Deleted == Len(heap) - Cardinality(DOMAIN sessions)

C21_ToolsEmitNothing ==
    [][\A r \in Reqs :
         (/\ pc[r] = "streaming" /\ pc'[r] = "streaming"
          /\ phase[r] = "tools" /\ phase'[r] # "tools") =>
            /\ out'[r] = out[r]
            /\ full_response'[r] = full_response[r]
            /\ seen_tool_calls'[r] = seen_tool_calls[r]
            /\ tool_calls_tracked'[r] = tool_calls_tracked[r]]_vars

\* the tool results of a response with a tool call and text were handled:
\* the turn waits for the next model response
C21_Witness ==
    \E r \in Reqs :
        /\ pc[r] = "streaming"
        /\ phase[r] = "model"
        /\ rounds[r] >= 1
        /\ agent_message[r].tool_calls # <<>>
        /\ full_response[r] # <<>>
        /\ tool_calls_tracked[r] # <<>>
        /\ \E i \in DOMAIN out[r] : out[r][i].type = "tool_call"

\* the step runs the tail of a streaming turn, where log_response is called
LogsResponse(r) == pc[r] \in {"streaming", "errored"} /\ pc'[r] = "done"

\* C22: the event log only grows, by one record at its end in each call of
\* log_response and in no other step; the metrics of a session id are never
\* removed and their counters never decrease; tracking a tool call
\* (log_tool_call), DELETE of a session and the metrics reads change neither
\* the log nor the metrics.
C22_LogAppendOnly ==
    [][/\ \/ logger_events' = logger_events
          \/ /\ Len(logger_events') = Len(logger_events) + 1
             /\ SubSeq(logger_events', 1, Len(logger_events)) = logger_events
       /\ (\E r \in Reqs : LogsResponse(r)) <=>
              Len(logger_events') = Len(logger_events) + 1
       /\ logger_events' = logger_events => logger_sessions' = logger_sessions
       /\ \A sid \in DOMAIN logger_sessions :
              /\ sid \in DOMAIN logger_sessions'
              /\ logger_sessions'[sid].message_count >=
                     logger_sessions[sid].message_count
              /\ logger_sessions'[sid].tool_call_count >=
                     logger_sessions[sid].tool_call_count
       /\ (\E r \in Reqs :
              Len(tool_calls_tracked'[r]) > Len(tool_calls_tracked[r])) =>
              UNCHANGED <<logger_events, logger_sessions>>
       /\ (/\ response' # response
           /\ response'.request[1] \in
                  {"delete_session", "get_session_metrics", "get_metrics"}) =>
              UNCHANGED <<logger_events, logger_sessions>>]_vars

\* a session with a recorded turn that called a tool was deleted, its
\* metrics were read, and the record and the counters are still there
C22_Witness ==
    \E sid \in DOMAIN logger_sessions \ DOMAIN sessions :
        /\ response.request = <<"get_session_metrics", sid>>
        /\ response.status_code = 200
        /\ logger_sessions[sid].tool_call_count >= 1
        /\ \E i \in DOMAIN logger_events :
              /\ logger_events[i].session_id = sid
              /\ logger_events[i].tool_calls # <<>>

\* C23: every tool-call request of a model response gives one tool_call
\* event and one tracked ToolCallEvent in the round of that response, also
\* when an earlier round of the same turn made a request with the same name
\* and arguments: only repeats inside one response are skipped.
C23_LaterRoundReported ==
    [][\A r \in Reqs :
         (pc[r] = "streaming" /\ rounds'[r] = rounds[r] + 1) =>
           LET added == SubSeq(out'[r], Len(out[r]) + 1, Len(out'[r]))
               tracked == SubSeq(tool_calls_tracked'[r],
                                 Len(tool_calls_tracked[r]) + 1,
                                 Len(tool_calls_tracked'[r]))
           IN  \A q \in Requests(agent_message'[r]) :
                  /\ EventsFor(added, q) = 1
                  /\ TrackedFor(tracked, q) = 1]_vars

\* the tool-call requests of an AIMessage in the order the model lists them:
\* its tool_calls, then the tool_use blocks of its content
ListedRequests(m) ==
    m.tool_calls \o
    (IF m.content.kind = "list"
     THEN LET uses == FilterSeq(m.content.blocks,
                          {b \in Range(m.content.blocks) : b.type = "tool_use"})
          IN  [i \in DOMAIN uses |-> ToolCall(uses[i].name, uses[i].input)]
     ELSE <<>>)

\* where a request is listed first
FirstListed(m, q) ==
    Least({p \in DOMAIN ListedRequests(m) :
              /\ ListedRequests(m)[p].name = q.name
              /\ SameArgs(ListedRequests(m)[p].args, q.args)})

\* C24: the events that one model response adds to the stream are its
\* tool_call events, each for a request of the response and in the order the
\* model listed the requests, followed by its text events; they are added
\* while the turn waits for the model, before the tool results are handled.
C24_ToolCallsBeforeText ==
    [][\A r \in Reqs :
         (pc[r] = "streaming" /\ pc'[r] = "streaming"
          /\ Len(out'[r]) > Len(out[r])) =>
           LET m == agent_message'[r]
               added == SubSeq(out'[r], Len(out[r]) + 1, Len(out'[r]))
               calls == ToolCallsOf(added)
           IN  /\ phase[r] = "model"
               /\ rounds'[r] = rounds[r] + 1
               /\ m.tool_calls # <<>> => phase'[r] = "tools"
               /\ \A i, j \in DOMAIN added :
                      (added[i].type = "tool_call" /\ added[j].type = "text")
                          => i < j
               /\ \A i \in DOMAIN calls : calls[i] \in Requests(m)
               /\ \A i, j \in DOMAIN calls :
                      i < j => FirstListed(m, calls[i]) < FirstListed(m, calls[j])]_vars

\* a response with two different tool calls and text was handled: the stream
\* holds the two tool_call events in the listed order, then the text, and the
\* tool results are still to come
C24_Witness ==
    \E r \in Reqs :
        /\ pc[r] = "streaming"
        /\ phase[r] = "tools"
        /\ out[r] = <<ToolCallSSE("s", <<>>), ToolCallSSE("t", ArgsYX),
                      TextSSE(<<"d">>), TextSSE(<<"?">>)>>

\* C25: every recorded turn whose verdict is true has an extracted question,
\* which is a line of the response that holds '?' and has a trimmed length
\* above 10.
C25_CompliantHasQuestion ==
    \A i \in DOMAIN logger_events :
        LET rec == logger_events[i]
            text == rec.agent_response
        IN  rec.followed_clarification_protocol = Some(TRUE) =>
               /\ rec.clarification_question # Null
               /\ \E k \in LongQuestionMarks(text) :
                      rec.clarification_question = Some(LineAt(text, k))

\* the characters and the tool names of the answers the model gives to the
\* turn of slot r
OwnChars(r) == UNION {Range(TextContent(m)) : m \in ConcMessages(r)}
OwnTools(r) == UNION {{q.name : q \in Requests(m)} : m \in ConcMessages(r)}

\* the user and assistant messages of a history
Conversation(h) == FilterSeq(h, {m \in Range(h) : m.role # "system"})

\* C26: of two streaming turns in flight on different session ids, each
\* appends to its session's history its own user message and, at its end,
\* its own text and nothing else; its stream, its done event and its one
\* record hold its own session id, user message, text and tool calls only.
C26_TurnsIsolated ==
    \A r \in Reqs :
        pc[r] # "idle" =>
            /\ session_id[r] = ConcId(r)
            /\ sessions[ConcId(r)] = session[r]
            /\ Conversation(heap[session[r]]) =
                   IF pc[r] = "done"
                   THEN <<Msg("user", ConcMessage(r)),
                          Msg("assistant", full_response[r])>>
                   ELSE <<Msg("user", ConcMessage(r))>>
            /\ Range(full_response[r]) \subseteq OwnChars(r)
            /\ \A i \in DOMAIN out[r] :
                   LET e == out[r][i]
                   IN  /\ e.type = "tool_call" => e.name \in OwnTools(r)
                       /\ (e.type = "text" /\ Len(e.content) = 1) =>
                              Range(e.content) \subseteq OwnChars(r)
                       /\ e.type = "done" => e.session_id = ConcId(r)
            /\ \A i \in DOMAIN logger_events :
                   LET rec == logger_events[i]
                   IN  (rec.session_id = ConcId(r)
                        \/ rec.message_id = message_id[r]) =>
                          /\ pc[r] = "done"
                          /\ RecordsOf(message_id[r]) = {i}
                          /\ rec.session_id = ConcId(r)
                          /\ rec.user_message = ConcMessage(r)
                          /\ rec.agent_response = full_response[r]
                          /\ rec.tool_calls = tool_calls_tracked[r]
                          /\ \A k \in DOMAIN rec.tool_calls :
                                 /\ rec.tool_calls[k].tool_name \in OwnTools(r)
                                 /\ rec.tool_calls[k].session_id = ConcId(r)
                                 /\ rec.tool_calls[k].message_id = message_id[r]

\* a turn began and ran to its end, with text and a tool call, while the turn
\* on the other session id, begun before it, was still streaming its text
C26_Witness ==
    \E r, q \in Reqs :
        /\ pc[r] = "done" /\ pc[q] = "streaming"
        /\ message_id[q] < message_id[r]
        /\ full_response[q] # <<>>
        /\ full_response[r] # <<>>
        /\ tool_calls_tracked[r] # <<>>

\* C27: the tail of a streaming turn leaves the session store as it is, so a
\* session deleted while the turn streamed stays deleted, and touches the
\* history of no other stored session; the turn's record is logged under its
\* session id all the same.  An id enters the store only with a chat request,
\* and a request with an id that is not stored gets a new session whose
\* history holds the system message and the request's user message only.
C27_DeleteNotUndone ==
    [][/\ \A r \in Reqs :
            LogsResponse(r) =>
               LET rec == logger_events'[Len(logger_events')]
               IN  /\ sessions' = sessions
                   /\ \A s \in DOMAIN sessions :
                          sessions[s] # session[r] =>
                             heap'[sessions[s]] = heap[sessions[s]]
                   /\ logger_events' = Append(logger_events, rec)
                   /\ rec.session_id = session_id[r]
                   /\ rec.message_id = message_id[r]
                   /\ session_id[r] \in DOMAIN logger_sessions'
       /\ \A r \in Reqs :
            (Started(r) /\ session_id'[r] \notin DOMAIN sessions) =>
               LET o == sessions'[session_id'[r]]
               IN  /\ o \notin DOMAIN heap
                   /\ o = session'[r]
                   /\ Range(heap'[o]) =
                          {SystemMessage, Msg("user", message'[r])}
                   /\ heap'[o][Len(heap'[o])] = Msg("user", message'[r])
       /\ DOMAIN sessions' \ DOMAIN sessions # {} =>
            \E r \in Reqs :
               /\ Started(r)
               /\ DOMAIN sessions' = DOMAIN sessions \cup {session_id'[r]}]_vars

\* a turn ran to its end after its session was deleted: the id is not stored,
\* the turn's record is in the log under the id, and the dict the turn held
\* has its assistant message
C27_Witness ==
    \E r \in Reqs :
        /\ pc[r] = "done"
        /\ session_id[r] \notin DOMAIN sessions
        /\ \E i \in RecordsOf(message_id[r]) :
              logger_events[i].session_id = session_id[r]
        /\ heap[session[r]][Len(heap[session[r]])] =
               Msg("assistant", full_response[r])
        /\ full_response[r] # <<>>

\* C28: when a streaming turn has ended, the contents of the text events of
\* its stream, put together in order, are the assistant message appended to
\* the session and the agent_response of the turn's record, whether or not
\* the agent call raised.
C28_StreamedIsStored ==
    \A r \in Reqs :
        pc[r] = "done" =>
            LET text == StreamedText(out[r])
                h == heap[session[r]]
            IN  /\ h[Len(h)] = Msg("assistant", text)
                /\ \A i \in RecordsOf(message_id[r]) :
                       logger_events[i].agent_response = text

\* C29: when no request is in flight, the history of no stored session ends
\* with a user message: every request that appended a user message has also
\* appended the assistant message of its turn by the time it finished,
\* whether it returned, its stream ended, the model call failed or the client
\* stopped reading.
C29_EveryMessageAnswered ==
    (\A r \in Reqs : Free(r)) =>
        \A s \in DOMAIN sessions :
            LET h == heap[sessions[s]]
            IN  h[Len(h)].role # "user"

\* C30: the history of every stored session has exactly one system message,
\* as its first message, and every other message of it is a user or an
\* assistant message.
C30_OneSystemMessage ==
    \A s \in DOMAIN sessions :
        LET h == heap[sessions[s]]
        IN  /\ h # <<>>
            /\ h[1].role = "system"
            /\ \A i \in 2..Len(h) : h[i].role \in {"user", "assistant"}

=============================================================================
